---------------------------- MODULE Spec2Model ----------------------------
(***************************************************************************)
(* eFlex::Timer (src/src/source/eFlexPwmTimer.cpp): the coordination of    *)
(* the submodules of one FlexPWM timer, the load-ok window, the start and  *)
(* stop of the counters and the wiring of the fault inputs.                *)
(*                                                                         *)
(* Timer::begin and Timer::updateSetting are modelled statement by         *)
(* statement (pc is the position inside the running call); the void        *)
(* broadcasts and setupFaults are one step each, enable is its loop and    *)
(* then the store of the flag.  calls is the                               *)
(* list of the calls the running Timer operation made to its               *)
(* collaborators, in order; Return ends the call and drops its frame.      *)
(***************************************************************************)
EXTENDS Integers, Sequences, FiniteSets, TLC

\* ------------------------------------------------------------ constants
NofTimers == 4
NofSubmodules == 4

\* bounds of the inputs
MaxFaultNum == 8
MaxFaultPin == 1
MaxArg == 1

Timers == 0 .. (NofTimers - 1)
Slots == 0 .. (NofSubmodules - 1)
FaultNums == 0 .. MaxFaultNum
FaultPins == -1 .. MaxFaultPin
Args == 0 .. MaxArg

VARIABLES
  SmList,       \* SmList[t]: the slots of timer t that hold a SubModule
  m_tmidx,      \* m_tmidx[t]: the index held by the Timer TM[t]
  m_ptr,        \* m_ptr[t]: the register block of TM[t] (PWM[index], by index)
  m_isenabled,  \* m_isenabled[t]
  running,      \* running[t]: counters of register block t run (start/stop)
  ldok,         \* ldok[t]: load-ok flag of register block t (setPwmLdok)
  staged,       \* staged[t]: slots whose register writes wait for load-ok
  cur,          \* the Timer the caller operates on
  pc,           \* position inside the running call; "done": it has returned
                \* and the caller reads the result; "idle": between calls
  op,           \* the running operation
  doStart, doSync, arg, arg2,   \* its arguments
  i, success,   \* locals of begin / updateSetting
  ret,          \* value returned by the last begin / updateSetting
  wrote,        \* slots whose submodule wrote registers during the call
  calls,        \* calls made by the running operation, in order
  prev          \* what the caller keeps of the last call that returned

vars == << SmList, m_tmidx, m_ptr, m_isenabled, running, ldok, staged, cur,
           pc, op, doStart, doSync, arg, arg2, i, success, ret, wrote, calls,
           prev >>

timerId == << SmList, m_tmidx, m_ptr >>
hw == << running, ldok, staged >>
locals == << i, success >>

\* ------------------------------------------------------------ helpers
B(b) == IF b THEN 1 ELSE 0

NoSm == NofSubmodules
NoOut == ""
\* one call to a collaborator: fn on submodule sm of row tm of SmList, or
\* (sm = NoSm) on register block tm or on the routing service; arguments a
\* and b, routed output out, result r (1 for a void call)
Call(fn, tm, sm, a, b, out, r) ==
  [fn |-> fn, tm |-> tm, sm |-> sm, a |-> a, b |-> b, out |-> out, r |-> r]

\* x & m on 8 bits
RECURSIVE BitAnd8(_, _, _)
BitAnd8(x, m, n) ==
  IF n = 0 THEN 0
  ELSE (x % 2) * (m % 2) + 2 * BitAnd8(x \div 2, m \div 2, n - 1)

Present(t) == SmList[m_tmidx[t]]

\* counters, load-ok and enabled flag of Timer t
TimerState(t) == << running[m_ptr[t]], ldok[m_ptr[t]], m_isenabled[t] >>

\* the calls made to submodules, with their results
SmResults == SelectSeq(calls, LAMBDA c : c.sm # NoSm)

\* a returned call as the caller remembers it: the operation, its
\* arguments, what the submodules returned, the state it left
Outcome(name) ==
  [op |-> name, doStart |-> doStart, doSync |-> doSync, res |-> SmResults,
   after |-> TimerState(cur)]

\* ------------------------------------------------------------ Init
\* TMF[NofTimers] = { TimerFactory (Pwm1), ... }: Timer (index) sets
\* m_tmidx (index), m_ptr (PWM[index]), m_isenabled (true); no register of
\* the block is written, so the counters and load-ok are as the caller's
\* start-up left them
Init ==
  /\ cur \in Timers
  /\ \E S \in SUBSET Slots :
        SmList = [t \in Timers |-> IF t = cur THEN S ELSE Slots \ S]
  /\ m_tmidx = [index \in Timers |-> index]
  /\ m_ptr = [index \in Timers |-> index]
  /\ m_isenabled = [index \in Timers |-> TRUE]
  /\ \E r, l \in BOOLEAN :
        /\ running = [t \in Timers |-> r]
        /\ ldok = [t \in Timers |-> l]
  /\ staged = [t \in Timers |-> {}]
  /\ pc = "idle"
  /\ op = "none"
  /\ doStart = FALSE
  /\ doSync = FALSE
  /\ arg = 0
  /\ arg2 = 0
  /\ i = 0
  /\ success = TRUE
  /\ ret = TRUE
  /\ wrote = {}
  /\ calls = << >>
  /\ prev = Outcome("none")


\* ------------------------------------------------------------ collaborators
\* Timer::stop / Timer::start: the counters of the Timer's register block
stop(t) ==
  /\ running' = [running EXCEPT ![m_ptr[t]] = FALSE]
  /\ calls' = Append(calls, Call("stop", m_ptr[t], NoSm, 0, 0, NoOut, 1))

start(t) ==
  /\ running' = [running EXCEPT ![m_ptr[t]] = TRUE]
  /\ calls' = Append(calls, Call("start", m_ptr[t], NoSm, 0, 0, NoOut, 1))

\* Timer::setPwmLdok (value): the load-ok flag of the register block; the
\* staged writes of the block are loaded when it is set
setPwmLdok(t, value) ==
  /\ ldok' = [ldok EXCEPT ![m_ptr[t]] = value]
  /\ staged' = IF value THEN [staged EXCEPT ![m_ptr[t]] = {}] ELSE staged
  /\ calls' = Append(calls, Call("setPwmLdok", m_ptr[t], NoSm, B(value), 0, NoOut, 1))

\* a register write of submodule s of row t: buffered while load-ok is off,
\* seen by the waveform generator at once while it is on
SmWrite(t, s) ==
  /\ staged' = IF ldok[t] THEN staged ELSE [staged EXCEPT ![t] = @ \cup {s}]
  /\ wrote' = wrote \cup {s}

\* SubModule::begin (doStart, doSync) of SmList[t][s], returning r
SmBegin(t, s, a, b, r) ==
  /\ SmWrite(t, s)
  /\ calls' = Append(calls, Call("begin", t, s, B(a), B(b), NoOut, B(r)))

\* SubModule::updateSetting (doSync) of SmList[t][s], returning r
SmUpdateSetting(t, s, a, r) ==
  /\ SmWrite(t, s)
  /\ calls' = Append(calls, Call("updateSetting", t, s, B(a), 0, NoOut, B(r)))

\* ------------------------------------------------------------ call entry
Enter(name, s, y, a, a2, next) ==
  /\ pc = "idle"
  /\ pc' = next
  /\ op' = name
  /\ doStart' = s
  /\ doSync' = y
  /\ arg' = a
  /\ arg2' = a2
  /\ i' = 0
  /\ success' = TRUE
  /\ ret' = TRUE
  /\ wrote' = {}

\* the call has returned: the caller goes on, the frame of the call is gone
ReturnFrame ==
  /\ pc = "done"
  /\ pc' = "idle"
  /\ op' = "none"
  /\ doStart' = FALSE
  /\ doSync' = FALSE
  /\ arg' = 0
  /\ arg2' = 0
  /\ i' = 0
  /\ success' = TRUE
  /\ ret' = TRUE
  /\ wrote' = {}
  /\ calls' = << >>
  /\ UNCHANGED << timerId, m_isenabled, hw, cur >>

Return == ReturnFrame /\ UNCHANGED prev

\* the same, by a caller that keeps the outcome to compare the next call with
ReturnKeep == ReturnFrame /\ prev' = Outcome(op)

\* ------------------------------------------------------------ Timer::begin
begin(s, y) ==
  /\ Enter("begin", s, y, 0, 0, "begin_stop")
  /\ calls' = << >>
  /\ UNCHANGED << timerId, m_isenabled, hw, cur, prev >>

\* if (doStart) stop();
BeginStopCond_Never == FALSE

BeginStopCond_Always == TRUE

BeginStopCond == doStart

BeginStop ==
  /\ pc = "begin_stop"
  /\ pc' = "begin_ldok_off"
  /\ IF BeginStopCond
       THEN stop(cur) /\ UNCHANGED << ldok, staged >>
       ELSE UNCHANGED << hw, calls >>
  /\ UNCHANGED << timerId, m_isenabled, cur, prev, op, doStart, doSync, arg, arg2,
                  locals, ret, wrote >>

\* if (doSync) setPwmLdok (false);
BeginLdokOff ==
  /\ pc = "begin_ldok_off"
  /\ pc' = "begin_loop"
  /\ IF doSync
       THEN setPwmLdok(cur, FALSE) /\ UNCHANGED running
       ELSE UNCHANGED << hw, calls >>
  /\ UNCHANGED << timerId, m_isenabled, cur, prev, op, doStart, doSync, arg, arg2,
                  locals, ret, wrote >>

\* for (i = 0; (i < NofSubmodules) && success; i++)
BeginLoopCond_OffByOne == (i < NofSubmodules - 1) /\ success

BeginLoopCond == (i < NofSubmodules) /\ success

BeginLoop ==
  /\ pc = "begin_loop"
  /\ \/ /\ BeginLoopCond
        /\ i \in Present(cur)
        /\ \E r \in BOOLEAN :
              /\ SmBegin(m_tmidx[cur], i, FALSE, FALSE, r)
              /\ success' = (success /\ r)
        /\ i' = i + 1
        /\ UNCHANGED << pc, running, ldok >>
     \/ /\ BeginLoopCond
        /\ i \notin Present(cur)
        /\ i' = i + 1
        /\ UNCHANGED << pc, success, hw, wrote, calls >>
     \/ /\ ~BeginLoopCond
        /\ pc' = "begin_ldok_on"
        /\ UNCHANGED << locals, hw, wrote, calls >>
  /\ UNCHANGED << timerId, m_isenabled, cur, prev, op, doStart, doSync, arg, arg2, ret >>

\* if (doSync) setPwmLdok (true);
BeginLdokOn ==
  /\ pc = "begin_ldok_on"
  /\ pc' = "begin_start"
  /\ IF doSync
       THEN setPwmLdok(cur, TRUE) /\ UNCHANGED running
       ELSE UNCHANGED << hw, calls >>
  /\ UNCHANGED << timerId, m_isenabled, cur, prev, op, doStart, doSync, arg, arg2,
                  locals, ret, wrote >>

\* if (doStart && success) start(); return success;
BeginStartCond_IgnoreSuccess == doStart

BeginStartCond_Never == FALSE

BeginStartCond == doStart /\ success

BeginStart_SetsEnabled ==
  /\ pc = "begin_start"
  /\ pc' = "done"
  /\ IF BeginStartCond
       THEN /\ start(cur)
            /\ m_isenabled' = [m_isenabled EXCEPT ![cur] = TRUE]
            /\ UNCHANGED << ldok, staged >>
       ELSE UNCHANGED << m_isenabled, hw, calls >>
  /\ ret' = success
  /\ UNCHANGED << timerId, cur, prev, op, doStart, doSync, arg, arg2,
                  locals, wrote >>

BeginStart ==
  /\ pc = "begin_start"
  /\ pc' = "done"
  /\ IF BeginStartCond
       THEN start(cur) /\ UNCHANGED << ldok, staged >>
       ELSE UNCHANGED << hw, calls >>
  /\ ret' = success
  /\ UNCHANGED << timerId, m_isenabled, cur, prev, op, doStart, doSync, arg, arg2,
                  locals, wrote >>

\* ------------------------------------------------------------ Timer::updateSetting
updateSetting(y) ==
  /\ Enter("updateSetting", FALSE, y, 0, 0, "update_loop")
  /\ calls' = << >>
  /\ UNCHANGED << timerId, m_isenabled, hw, cur, prev >>

\* for (i = 0; i < NofSubmodules; i++)
UpdateLoopCond_FailFast == (i < NofSubmodules) /\ success

UpdateLoopCond == i < NofSubmodules

UpdateLoop ==
  /\ pc = "update_loop"
  /\ \/ /\ UpdateLoopCond
        /\ i \in Present(cur)
        /\ \E r \in BOOLEAN :
              /\ SmUpdateSetting(m_tmidx[cur], i, doSync, r)
              /\ success' = (success /\ r)
        /\ i' = i + 1
        /\ UNCHANGED << pc, ret, running, ldok >>
     \/ /\ UpdateLoopCond
        /\ i \notin Present(cur)
        /\ i' = i + 1
        /\ UNCHANGED << pc, ret, success, hw, wrote, calls >>
     \/ /\ ~UpdateLoopCond
        /\ pc' = "done"
        /\ ret' = success
        /\ UNCHANGED << locals, hw, wrote, calls >>
  /\ UNCHANGED << timerId, m_isenabled, cur, prev, op, doStart, doSync, arg, arg2 >>

\* ------------------------------------------------------------ broadcasts
\* for (i = 0; i < NofSubmodules; i++) { s = SmList[m_tmidx][i]; if (s) s->fn (a); }
\* from slot k on: the calls made, in order
RECURSIVE Broadcast_StopAtAbsent(_, _, _, _)
Broadcast_StopAtAbsent(t, fn, a, k) ==
  IF k >= NofSubmodules \/ k \notin SmList[t] THEN << >>
  ELSE << Call(fn, t, k, a, 0, NoOut, 1) >> \o Broadcast_StopAtAbsent(t, fn, a, k + 1)

RECURSIVE Broadcast(_, _, _, _)
Broadcast(t, fn, a, k) ==
  IF k >= NofSubmodules THEN << >>
  ELSE (IF k \in SmList[t] THEN << Call(fn, t, k, a, 0, NoOut, 1) >> ELSE << >>)
       \o Broadcast(t, fn, a, k + 1)

\* the loop of Timer::enable
enable(value) ==
  /\ Enter("enable", FALSE, FALSE, B(value), 0, "enable_store")
  /\ calls' = Broadcast(m_tmidx[cur], "enable", B(value), 0)
  /\ UNCHANGED << timerId, m_isenabled, hw, cur, prev >>

\* m_isenabled = value;
EnableValue_AlwaysTrue == TRUE

EnableValue == arg = 1

EnableStore_Shared ==
  /\ pc = "enable_store"
  /\ pc' = "done"
  /\ m_isenabled' = [t \in Timers |-> EnableValue]
  /\ UNCHANGED << timerId, hw, cur, prev, op, doStart, doSync, arg, arg2, locals,
                  ret, wrote, calls >>

EnableStore ==
  /\ pc = "enable_store"
  /\ pc' = "done"
  /\ m_isenabled' = [m_isenabled EXCEPT ![cur] = EnableValue]
  /\ UNCHANGED << timerId, hw, cur, prev, op, doStart, doSync, arg, arg2, locals,
                  ret, wrote, calls >>

setupLevel(level) ==
  /\ Enter("setupLevel", FALSE, FALSE, level, 0, "done")
  /\ calls' = Broadcast(m_tmidx[cur], "setupLevel", level, 0)
  /\ UNCHANGED << timerId, m_isenabled, hw, cur, prev >>

setupDeadtime(deadtimeValue) ==
  /\ Enter("setupDeadtime", FALSE, FALSE, deadtimeValue, 0, "done")
  /\ calls' = Broadcast(m_tmidx[cur], "setupDeadtime", deadtimeValue, 0)
  /\ UNCHANGED << timerId, m_isenabled, hw, cur, prev >>

setupOutputEnable(activate) ==
  /\ Enter("setupOutputEnable", FALSE, FALSE, B(activate), 0, "done")
  /\ calls' = Broadcast(m_tmidx[cur], "setupOutputEnable", B(activate), 0)
  /\ UNCHANGED << timerId, m_isenabled, hw, cur, prev >>

setupDutyCyclePercent(dutyCyclePercent) ==
  /\ Enter("setupDutyCyclePercent", FALSE, FALSE, dutyCyclePercent, 0, "done")
  /\ calls' = Broadcast(m_tmidx[cur], "setupDutyCyclePercent", dutyCyclePercent, 0)
  /\ UNCHANGED << timerId, m_isenabled, hw, cur, prev >>

setupFaultState(faultState) ==
  /\ Enter("setupFaultState", FALSE, FALSE, faultState, 0, "done")
  /\ calls' = Broadcast(m_tmidx[cur], "setupFaultState", faultState, 0)
  /\ UNCHANGED << timerId, m_isenabled, hw, cur, prev >>

\* ------------------------------------------------------------ faults
\* const uint8_t XBarFaultOutput [NofTimers][4]
XBarFaultOutput ==
  << << "XBARA1_OUT_FLEXPWM1_FAULT0", "XBARA1_OUT_FLEXPWM1_FAULT1",
        "XBARA1_OUT_FLEXPWM1_FAULT2", "XBARA1_OUT_FLEXPWM1_FAULT3" >>,
     << "XBARA1_OUT_FLEXPWM2_FAULT0", "XBARA1_OUT_FLEXPWM2_FAULT1",
        "XBARA1_OUT_FLEXPWM2_FAULT2", "XBARA1_OUT_FLEXPWM2_FAULT3" >>,
     << "XBARA1_OUT_FLEXPWM3_FAULT0", "XBARA1_OUT_FLEXPWM3_FAULT1",
        "XBARA1_OUT_FLEXPWM3_FAULT2", "XBARA1_OUT_FLEXPWM3_FAULT3" >>,
     << "XBARA1_OUT_FLEXPWM4_FAULT0", "XBARA1_OUT_FLEXPWM4_FAULT1",
        "XBARA1_OUT_FLEXPWM4_FAULT2", "XBARA1_OUT_FLEXPWM4_FAULT3" >> >>

XBarColumns == Len(XBarFaultOutput[1])

\* a byte that is no entry of the table
Unspecified == "UNSPECIFIED"

\* the values the read XBarFaultOutput[t][f] can give: the entry; for a
\* column outside the row (undefined behaviour) the byte at that offset of
\* the array when there is one (rows are contiguous), or any other byte
XBarRead(t, f) ==
  IF t < Len(XBarFaultOutput) /\ f < XBarColumns
    THEN { XBarFaultOutput[t + 1][f + 1] }
    ELSE LET k == t * XBarColumns + f
         IN  (IF k < Len(XBarFaultOutput) * XBarColumns
                THEN { XBarFaultOutput[(k \div XBarColumns) + 1][(k % XBarColumns) + 1] }
                ELSE {}) \cup { Unspecified }

\* (faultNum & 0x03) == 0
FaultNumAccepted_Mask1(faultNum) == BitAnd8(faultNum, 1, 8) = 0

FaultNumAccepted(faultNum) == BitAnd8(faultNum, 3, 8) = 0

setupFaults(faultNum, faultConfig, faultPin) ==
  /\ Enter("setupFaults", FALSE, FALSE, faultNum, faultPin, "done")
  /\ \/ /\ FaultNumAccepted(faultNum)
        /\ faultPin > 0
        /\ \E out \in XBarRead(m_tmidx[cur], faultNum) :
              calls' = << Call("xbar_connect", m_tmidx[cur], NoSm, faultPin, faultNum, out, 1),
                          Call("PWM_SetupFaults", m_ptr[cur], NoSm, faultNum, faultConfig, NoOut, 1) >>
     \/ /\ FaultNumAccepted(faultNum)
        /\ ~(faultPin > 0)
        /\ calls' = << Call("PWM_SetupFaults", m_ptr[cur], NoSm, faultNum, faultConfig, NoOut, 1) >>
     \/ /\ ~FaultNumAccepted(faultNum)
        /\ calls' = << >>
  /\ UNCHANGED << timerId, m_isenabled, hw, cur, prev >>

\* ------------------------------------------------------------ specification
Next ==
  \/ \E s, y \in BOOLEAN : begin(s, y)
  \/ BeginStop
  \/ BeginLdokOff
  \/ BeginLoop
  \/ BeginLdokOn
  \/ BeginStart
  \/ \E y \in BOOLEAN : updateSetting(y)
  \/ UpdateLoop
  \/ \E v \in BOOLEAN : enable(v)
  \/ EnableStore
  \/ \E a \in Args : setupLevel(a)
  \/ \E a \in Args : setupDeadtime(a)
  \/ \E a \in BOOLEAN : setupOutputEnable(a)
  \/ \E a \in Args : setupDutyCyclePercent(a)
  \/ \E a \in Args : setupFaultState(a)
  \/ \E f \in FaultNums, c \in Args, p \in FaultPins : setupFaults(f, c, p)
  \/ Return

Spec == Init /\ [][Next]_vars

\* a caller that only calls Timer::begin, again and again, and keeps the
\* outcome of each call
NextBegin ==
  \/ \E s, y \in BOOLEAN : begin(s, y)
  \/ BeginStop
  \/ BeginLdokOff
  \/ BeginLoop
  \/ BeginLdokOn
  \/ BeginStart
  \/ ReturnKeep

SpecBegin == Init /\ [][NextBegin]_vars

\* Timer *TM[NofTimers] = { &TMF[Pwm1], ... }: the Timer at each index
TM == [n \in Timers |-> n]

\* the caller takes another Timer from the registry
Select(n) ==
  /\ pc = "idle"
  /\ TM[n] # cur
  /\ cur' = TM[n]
  /\ UNCHANGED << timerId, m_isenabled, hw, prev, pc, op, doStart, doSync,
                  arg, arg2, locals, ret, wrote, calls >>

\* a caller that operates all Timers of the registry in turn; the rows of
\* SmList hold one or two submodules, in different slots for each Timer;
\* the blocks start stopped, with load-ok set
InitTM ==
  /\ cur \in Timers
  /\ \E s \in Slots :
        SmList = [t \in Timers |-> { (s + t) % NofSubmodules,
                                     (s + t + t) % NofSubmodules }]
  /\ m_tmidx = [index \in Timers |-> index]
  /\ m_ptr = [index \in Timers |-> index]
  /\ m_isenabled = [index \in Timers |-> TRUE]
  /\ running = [t \in Timers |-> FALSE]
  /\ ldok = [t \in Timers |-> TRUE]
  /\ staged = [t \in Timers |-> {}]
  /\ pc = "idle"
  /\ op = "none"
  /\ doStart = FALSE
  /\ doSync = FALSE
  /\ arg = 0
  /\ arg2 = 0
  /\ i = 0
  /\ success = TRUE
  /\ ret = TRUE
  /\ wrote = {}
  /\ calls = << >>
  /\ prev = Outcome("none")

NextTM ==
  \/ Next
  \/ \E n \in Timers : Select(n)

SpecTM == InitTM /\ [][NextTM]_vars


\* ------------------------------------------------------------ properties
CallIdx == 1 .. Len(calls)
\* positions of the calls of fn made to submodule s
SmCallsOf(fn, s) == { k \in CallIdx : calls[k].fn = fn /\ calls[k].sm = s }
\* positions of the calls of fn made to the register block / routing service
BlockCallsOf(fn) == SmCallsOf(fn, NoSm)
SmCalls(fn) == { k \in CallIdx : calls[k].fn = fn /\ calls[k].sm # NoSm }
Returned(name) == pc = "done" /\ op = name

\* C1: in Timer::begin (true, doSync), for every set of present slots,
\* stop() is called before the first submodule begin (and also when no
\* slot is present); start() is called only after every present submodule's
\* begin was called and returned success, and never after a failure.
C1_StopFirstStartOnlySuccess ==
  (op = "begin" /\ doStart) =>
    /\ pc # "begin_stop" => (Len(calls) >= 1 /\ calls[1].fn = "stop")
    /\ \A k \in SmCalls("begin") : \E j \in BlockCallsOf("stop") : j < k
    /\ \A k \in BlockCallsOf("start") :
          /\ \A s \in SmList[cur] :
                \E j \in SmCallsOf("begin", s) : j < k /\ calls[j].r = 1
          /\ \A j \in SmCalls("begin") : calls[j].r = 1

C1_Witness ==
  /\ Returned("begin") /\ doStart
  /\ Cardinality(SmList[cur]) = 3
  /\ BlockCallsOf("start") # {}

\* C2: when Timer::begin returns, the result is failure if a submodule's
\* begin failed, and every present submodule, also one in a slot after the
\* failing one, received begin exactly once.
C2_BeginFanOutCompletes ==
  Returned("begin") =>
    /\ ret = (\A k \in SmCalls("begin") : calls[k].r = 1)
    /\ \A s \in SmList[cur] : Cardinality(SmCallsOf("begin", s)) = 1

\* C3: Timer::updateSetting returns the AND of the results of updateSetting
\* of the present submodules and calls each present submodule exactly once,
\* also after an earlier one failed; absent slots get no call.
C3_UpdateSettingFanOut ==
  Returned("updateSetting") =>
    /\ ret = (\A k \in SmCalls("updateSetting") : calls[k].r = 1)
    /\ \A s \in Slots :
          Cardinality(SmCallsOf("updateSetting", s)) = IF s \in SmList[cur] THEN 1 ELSE 0
    /\ Len(calls) = Cardinality(SmList[cur])

C3_Witness ==
  /\ Returned("updateSetting")
  /\ ~ret
  /\ \E j, k \in SmCalls("updateSetting") : j < k /\ calls[j].r = 0
  /\ SmList[cur] # Slots

\* C4: when Timer::begin (_, true) or Timer::updateSetting (true) returns,
\* the load-ok flag of the Timer's register block is enabled.
C4_WindowClosedAtReturn ==
  ((Returned("begin") \/ Returned("updateSetting")) /\ doSync) => ldok[m_ptr[cur]]

\* C5: Timer::updateSetting (true) disables load-ok before its first
\* submodule call and enables it after the last: the Timer's calls are
\* setPwmLdok (false), the submodule calls, setPwmLdok (true).
C5_UpdateSettingOwnsWindow ==
  (op = "updateSetting" /\ doSync) =>
    /\ \A k \in SmCalls("updateSetting") :
          \E j \in BlockCallsOf("setPwmLdok") : j < k /\ calls[j].a = 0
    /\ pc = "done" =>
          /\ Cardinality(BlockCallsOf("setPwmLdok")) = 2
          /\ calls[1].fn = "setPwmLdok" /\ calls[1].a = 0
          /\ calls[Len(calls)].fn = "setPwmLdok" /\ calls[Len(calls)].a = 1

\* the slots whose writes of the running call the waveform generator sees
Visible == wrote \ staged[m_ptr[cur]]

\* C6: during and after a begin (_, true) or updateSetting (true) call the
\* waveform generator sees the register writes of that call of none of the
\* submodules, or of all of them: of every present submodule, or, once the
\* fan-out is over, of every submodule that wrote.
C6_AtomicCommit ==
  (op \in {"begin", "updateSetting"} /\ doSync) =>
    \/ Visible = {}
    \/ Visible = SmList[cur]
    \/ pc \in {"begin_start", "done"} /\ Visible = wrote

\* C7: when Timer::begin (true, doSync) returns, the counters run exactly
\* when it returned true.
C7_RunningIffSuccess ==
  (Returned("begin") /\ doStart) => (running[m_ptr[cur]] <=> ret)

C7_Witness ==
  /\ Returned("begin") /\ doStart
  /\ ~ret
  /\ ~running[m_ptr[cur]]
  /\ SmCalls("begin") # {}

\* C8: Timer::setupFaults applies the fault record (PWM_SetupFaults, once)
\* exactly for the faultNum with faultNum mod 4 = 0; for any other faultNum
\* it calls neither xbar_connect nor PWM_SetupFaults, whatever faultPin is.
C8_FaultNumAcceptance ==
  Returned("setupFaults") =>
    IF arg % 4 = 0
      THEN /\ Cardinality(BlockCallsOf("PWM_SetupFaults")) = 1
           /\ \A k \in BlockCallsOf("PWM_SetupFaults") : calls[k].a = arg
      ELSE calls = << >>

C8_Witness ==
  /\ Returned("setupFaults")
  /\ arg = 8
  /\ arg2 > 0
  /\ BlockCallsOf("PWM_SetupFaults") # {}

\* C9: for an accepted faultNum, Timer::setupFaults with faultPin > 0
\* connects faultPin to the entry of the 4x4 table for (timer index,
\* faultNum) and then applies the fault record; with faultPin <= 0 it only
\* applies the fault record.
C9_RoutesToTableEntry ==
  (Returned("setupFaults") /\ arg % 4 = 0) =>
    IF arg2 > 0
      THEN /\ arg \in 0 .. 3
           /\ Len(calls) = 2
           /\ calls[1].fn = "xbar_connect"
           /\ calls[1].a = arg2
           /\ calls[1].out = XBarFaultOutput[m_tmidx[cur] + 1][arg + 1]
           /\ calls[2].fn = "PWM_SetupFaults"
      ELSE /\ Len(calls) = 1
           /\ calls[1].fn = "PWM_SetupFaults"

SetupOps ==
  {"setupLevel", "setupDeadtime", "setupOutputEnable",
   "setupDutyCyclePercent", "setupFaultState"}

\* C10: a call of setupLevel, setupDeadtime, setupOutputEnable,
\* setupDutyCyclePercent or setupFaultState calls the operation of the same
\* name once on every present submodule of the Timer, with the argument it
\* was given, calls nothing else, and leaves load-ok, the counters and the
\* enabled flag as they were.
C10_PureBroadcast ==
  [][ (pc = "idle" /\ op' \in SetupOps) =>
        /\ pc' = "done"
        /\ Len(calls') = Cardinality(SmList[cur])
        /\ \A s \in SmList[cur] :
              \E k \in 1 .. Len(calls') :
                 /\ calls'[k].fn = op'
                 /\ calls'[k].tm = m_tmidx[cur]
                 /\ calls'[k].sm = s
                 /\ calls'[k].a = arg'
        /\ UNCHANGED << ldok, running, m_isenabled >> ]_vars

C10_Witness ==
  /\ Returned("setupDeadtime")
  /\ arg = 1
  /\ Len(calls) = 3
  /\ running[m_ptr[cur]]
  /\ ldok[m_ptr[cur]]

\* C11: Timer::enable (value) first calls enable (value) once on every
\* present submodule and only then stores value in the enabled flag; it
\* leaves load-ok and the counters alone.  No other step of any operation
\* changes an enabled flag, so the flag holds the argument of the most
\* recent enable call.
C11_EnableBroadcastThenRecord ==
  [][ /\ (pc = "idle" /\ op' = "enable") =>
            /\ Len(calls') = Cardinality(SmList[cur])
            /\ \A s \in SmList[cur] :
                  \E k \in 1 .. Len(calls') :
                     /\ calls'[k].fn = "enable"
                     /\ calls'[k].sm = s
                     /\ calls'[k].a = arg'
            /\ UNCHANGED << m_isenabled, ldok, running >>
      /\ (m_isenabled' # m_isenabled) =>
            /\ op = "enable" /\ pc = "enable_store"
            /\ \A s \in SmList[cur] : SmCallsOf("enable", s) # {}
            /\ \A t \in Timers \ {cur} : m_isenabled'[t] = m_isenabled[t]
      /\ (op' = "enable" /\ pc' = "done") =>
            /\ m_isenabled'[cur] = (arg' = 1)
            /\ UNCHANGED << ldok, running, calls >> ]_vars

C11_Witness ==
  /\ Returned("enable")
  /\ arg = 0
  /\ ~m_isenabled[cur]
  /\ Len(calls) = 2
  /\ running[m_ptr[cur]]

\* C12: a Timer::begin (true, true) whose submodules all succeed makes
\* exactly these calls, in this order: stop() once, setPwmLdok (false) once,
\* begin (false, false) once on each present submodule in slot order,
\* setPwmLdok (true) once, start() once.  No submodule begin is ever given
\* a true start or sync flag.
C12_BeginCallOrder ==
  /\ \A k \in SmCalls("begin") : calls[k].a = 0 /\ calls[k].b = 0
  /\ (Returned("begin") /\ doStart /\ doSync /\ ret) =>
        LET n == Len(calls) IN
        /\ n = Cardinality(SmList[cur]) + 4
        /\ calls[1].fn = "stop"
        /\ calls[2].fn = "setPwmLdok" /\ calls[2].a = 0
        /\ \A k \in 3 .. (n - 2) :
              /\ calls[k].fn = "begin"
              /\ calls[k].sm \in SmList[cur]
              /\ calls[k].tm = m_tmidx[cur]
              /\ k > 3 => calls[k - 1].sm < calls[k].sm
        /\ calls[n - 1].fn = "setPwmLdok" /\ calls[n - 1].a = 1
        /\ calls[n].fn = "start"

C12_Witness ==
  /\ Returned("begin") /\ doStart /\ doSync /\ ret
  /\ cur = 2
  /\ SmList[cur] = {0, 1, 2}
  /\ Len(calls) = 7

\* C13 as claimed: in every reachable state the enabled flag of a Timer is
\* true exactly when the counters of its register block run.
C13_EnabledMirrorsRunning ==
  \A t \in Timers : m_isenabled[t] <=> running[m_ptr[t]]

\* C13 as amended: the enabled flag is independent of the run state of the
\* counters.  It is true after construction, whatever the counters do; it
\* changes only in Timer::enable, which leaves the counters alone; and a
\* step that starts or stops the counters leaves it as it was.
C13_EnabledFollowsEnableOnly ==
  /\ \A t \in Timers : m_isenabled[t]
  /\ [][ /\ (running' # running) => (m_isenabled' = m_isenabled)
         /\ (m_isenabled' # m_isenabled) => (op = "enable" /\ running' = running) ]_vars

C13_Witness ==
  /\ Returned("begin") /\ doStart
  /\ ~ret
  /\ m_isenabled[cur]
  /\ ~running[m_ptr[cur]]
  /\ BlockCallsOf("stop") # {}

\* C14: a Timer::begin call that follows a begin call with the same
\* arguments and the same submodule results leaves counters, load-ok and
\* enabled flag as that call left them; and a begin (true, _) entered while
\* the counters run, all submodules succeeding, ends with them running.
C14_BeginIdempotent ==
  Returned("begin") =>
    /\ ( /\ prev.op = "begin"
         /\ prev.doStart = doStart /\ prev.doSync = doSync
         /\ prev.res = SmResults ) => TimerState(cur) = prev.after
    /\ (doStart /\ ret /\ prev.after[1]) => running[m_ptr[cur]]

C14_Witness ==
  /\ Returned("begin") /\ doStart /\ doSync
  /\ prev.op = "begin" /\ prev.doStart /\ prev.doSync
  /\ prev.res = SmResults
  /\ Len(SmResults) = 2
  /\ ~ret
  /\ TimerState(cur) = prev.after

\* C15: only Timer::begin with doStart = true calls start() or stop() and
\* changes the run state of the counters: every step of begin (false, _),
\* updateSetting, enable, the setupX broadcasts and setupFaults leaves the
\* counters of every register block as they were, whatever the submodules
\* return.
C15_RunStateOnlyByBeginStart ==
  [][ /\ (running' # running) => (op = "begin" /\ doStart)
      /\ ~(op' = "begin" /\ doStart') =>
            \A k \in 1 .. Len(calls') : calls'[k].fn \notin {"start", "stop"} ]_vars

C15_Witness ==
  /\ Returned("begin") /\ ~doStart
  /\ ~ret
  /\ running[m_ptr[cur]]
  /\ SmCalls("begin") # {}

\* C16: whenever Timer::setupFaults calls xbar_connect, the row (timer
\* index) and the column (faultNum) of the entry of XBarFaultOutput it
\* passes are inside the table, rows and columns 0..3.
C16_LookupInsideTable ==
  \A k \in BlockCallsOf("xbar_connect") :
     /\ calls[k].tm \in 0 .. (Len(XBarFaultOutput) - 1)
     /\ calls[k].b \in 0 .. (XBarColumns - 1)

==========================================================================
